---- MODULE Spec2Model ----
(***************************************************************************)
(* Model of the screen-capture layer of src/screen_capture.py:             *)
(* the two capture backends (MSSCapturer, DXCamCapturer) and the           *)
(* module-level capture session (_active_capturer, configure_captura,      *)
(* get_active_capturer, stop_active_capturer).                             *)
(*                                                                         *)
(* A backend object is a record.  The OS resource a backend acquires       *)
(* (mss.mss() / dxcam.create()) is a numbered handle: the n-th handle an   *)
(* object acquires is n, "handle" is the one the object's attribute        *)
(* (sct / camera) refers to (0 is None) and "opened" is the set of its     *)
(* handles that were acquired and on which close() / release() has not     *)
(* been called.                                                            *)
(*                                                                         *)
(* The library calls whose failure the code itself handles (try/except or  *)
(* a None test) are inputs drawn from their possible outcomes.             *)
(*                                                                         *)
(* The second half models MonsterDetector of src/monster_detector.py: the  *)
(* template library (carregar_templates) and the detection engine          *)
(* (detectar_monstros), with cv2.matchTemplate computed exactly on small   *)
(* images.                                                                 *)
(***************************************************************************)
EXTENDS Integers, Sequences, FiniteSets, TLC

VARIABLES
    objs,       \* every backend object constructed so far, in order of construction
    active,     \* _active_capturer: index into objs, 0 for None
    pc,         \* position of the single caller inside configure_captura
    cfg,        \* locals of the configure_captura call in progress
    last,       \* the last completed call: what it was, its inputs and its outcome
    held,       \* the objects the caller holds a reference to (it can call them directly)
    asked,      \* per object, the arguments of its last set_region call that were valid
    detector,   \* the MonsterDetector object: templates, template_filenames, _cache_loaded
    loadcall,   \* the last completed carregar_templates call
    detcall     \* the detectar_monstros call whose result the caller is holding

\* the variables of the detection engine (src/monster_detector.py)
detvars == <<detector, loadcall, detcall>>

vars == <<objs, active, pc, cfg, last, held, asked, detector, loadcall, detcall>>

----------------------------------------------------------------------------
(* Bounds of the model *)

\* number of backend objects configure_captura may construct
MaxObjs == 3
\* number of handles one backend object may acquire
MaxAcq == 2
\* the origins of the regions handed to set_region lie in 0..MaxXY
MaxXY == 1
\* width and height of a region range over -1..MaxWH
MaxWH == 2

Sizes == (0 - 1)..MaxWH
\* origins <<x, y>> with x # y or, from MaxXY = 2 on, x = y too
Origins == {<<i, MaxXY - i>> : i \in 0..MaxXY}
\* the origin of the regions handed to capture_frame, which is none of Origins
OverrideOrigin == <<MaxXY + 1, MaxXY + 2>>

----------------------------------------------------------------------------
(* Values *)

NoRegion == <<>>
NoObj == 0
NoHandle == 0

\* backend_choice strings handed to configure_captura
BackendChoices == {"mss", "MSS", "dxcam", "DXCam", "opengl"}

\* str.lower() on the choices above
Lower(s) ==
    CASE s = "MSS" -> "mss"
      [] s = "DXCam" -> "dxcam"
      [] OTHER -> s

\* outcomes of mss.mss()
MSSCreateOutcomes == {"ok", "raise"}
\* outcomes of dxcam.create(): a camera, None, or an exception
DXCreateOutcomes == {"ok", "none", "raise"}
\* outcomes of camera.release()
ReleaseOutcomes == {"ok", "raise"}
\* outcomes of sct.grab() / camera.grab(): an image; a transient miss
\* (ScreenShotError for MSS, a None result for DXcam); any other exception
GrabOutcomes == {"ok", "transient", "fatal"}

CreateOutcomes(kind) == IF kind = "mss" THEN MSSCreateOutcomes ELSE DXCreateOutcomes

----------------------------------------------------------------------------
(* ScreenCapturerBase *)

\* ScreenCapturerBase.__init__ and the subclass constructors: not running, no
\* handle, the all-zero region; DXCamCapturer also has _region_for_dxcam = None
NewCapturer(kind) ==
    [kind |-> kind,
     running |-> FALSE,
     handle |-> NoHandle,
     acq |-> 0,
     opened |-> {},
     region |-> [top |-> 0, left |-> 0, width |-> 0, height |-> 0],
     region_for_dxcam |-> NoRegion]

MSSCapturer == NewCapturer("mss")
DXCamCapturer == NewCapturer("dxcam")

BaseStart(c) == [c EXCEPT !.running = TRUE]

\* faulty variant of BaseStop: the running flag is not cleared
BaseStopKeepsRunning(c) == c

BaseStop(c) == [c EXCEPT !.running = FALSE]

BaseSetRegion(c, x, y, width, height) ==
    [c EXCEPT !.region = [top |-> y, left |-> x, width |-> width, height |-> height]]

is_running(c) == c.running

----------------------------------------------------------------------------
(* The libraries' resources *)

\* self.sct = mss.mss() / self.camera = dxcam.create(...) returning an object:
\* a fresh handle is opened and the attribute refers to it; the handle the
\* attribute referred to before is not touched
AcquireInto(c) ==
    [c EXCEPT !.acq = c.acq + 1,
              !.opened = c.opened \cup {c.acq + 1},
              !.handle = c.acq + 1]

\* sct.close(): the handle the attribute refers to is closed
CloseHandle(c) == [c EXCEPT !.opened = c.opened \ {c.handle}]

\* camera.release(): the handle the attribute refers to is released; the call
\* may raise
ReleaseHandle(c, rel) == [c |-> CloseHandle(c), raised |-> rel = "raise"]

----------------------------------------------------------------------------
(* MSSCapturer *)

\* the try block of MSSCapturer.start
MSSStartTry(c, out) ==
    IF out = "raise"
    THEN [c |-> c, raised |-> TRUE]
    ELSE [c |-> BaseStart(AcquireInto(c)), raised |-> FALSE]

\* MSSCapturer.start: the except clause only clears the running flag
MSSStart(c, out) ==
    LET t == MSSStartTry(c, out)
    IN  IF t.raised
        THEN [c |-> [t.c EXCEPT !.running = FALSE], exc |-> FALSE]
        ELSE [c |-> t.c, exc |-> FALSE]

\* faulty variant of MSSStop: self.sct is closed but not reset to None
MSSStopKeepsHandle(c) ==
    [c |-> BaseStop(IF c.handle # NoHandle THEN CloseHandle(c) ELSE c), exc |-> FALSE]

MSSStop(c) ==
    LET c1 == IF c.handle # NoHandle
              THEN [CloseHandle(c) EXCEPT !.handle = NoHandle]
              ELSE c
    IN  [c |-> BaseStop(c1), exc |-> FALSE]

\* faulty variant of MSSSetRegion: rejects only when both sizes are invalid
MSSSetRegionAnd(c, x, y, width, height) ==
    IF width <= 0 /\ height <= 0
    THEN [c |-> c, exc |-> FALSE]
    ELSE [c |-> BaseSetRegion(c, x, y, width, height), exc |-> FALSE]

MSSSetRegion(c, x, y, width, height) ==
    IF width <= 0 \/ height <= 0
    THEN [c |-> c, exc |-> FALSE]
    ELSE [c |-> BaseSetRegion(c, x, y, width, height), exc |-> FALSE]

----------------------------------------------------------------------------
(* DXCamCapturer *)

\* the try block of DXCamCapturer.start: the result of dxcam.create is
\* assigned to self.camera before it is tested for None
DXCamStartTry(c, out) ==
    CASE out = "raise" -> [c |-> c, raised |-> TRUE]
      [] out = "none" -> [c |-> [c EXCEPT !.handle = NoHandle], raised |-> TRUE]
      [] OTHER -> [c |-> BaseStart(AcquireInto(c)), raised |-> FALSE]

\* the except clause of DXCamCapturer.start; an exception of release() is
\* caught by the inner try
DXCamStartExcept(c, rel) ==
    LET c1 == [c EXCEPT !.running = FALSE]
    IN  IF c1.handle # NoHandle
        THEN [ReleaseHandle(c1, rel).c EXCEPT !.handle = NoHandle]
        ELSE c1

DXCamStart(c, out, rel) ==
    LET t == DXCamStartTry(c, out)
    IN  IF t.raised
        THEN [c |-> DXCamStartExcept(t.c, rel), exc |-> FALSE]
        ELSE [c |-> t.c, exc |-> FALSE]

\* DXCamCapturer.stop: an exception of release() is caught, the statements
\* after the try run in either case
DXCamStop(c, rel) ==
    LET c1 == IF c.handle # NoHandle
              THEN [ReleaseHandle(c, rel).c EXCEPT !.handle = NoHandle]
              ELSE c
    IN  [c |-> BaseStop(c1), exc |-> FALSE]

\* faulty variant of DXCamSetRegion: the DXcam region keeps width and height
\* where right and bottom are expected
DXCamSetRegionUnconverted(c, x, y, width, height) ==
    IF width <= 0 \/ height <= 0
    THEN [c |-> c, exc |-> FALSE]
    ELSE [c |-> [BaseSetRegion(c, x, y, width, height)
                    EXCEPT !.region_for_dxcam = <<x, y, width, height>>],
          exc |-> FALSE]

DXCamSetRegion(c, x, y, width, height) ==
    IF width <= 0 \/ height <= 0
    THEN [c |-> c, exc |-> FALSE]
    ELSE [c |-> [BaseSetRegion(c, x, y, width, height)
                    EXCEPT !.region_for_dxcam = <<x, y, x + width, y + height>>],
          exc |-> FALSE]

----------------------------------------------------------------------------
(* Dispatch on the backend's class *)

StartOf(c, out, rel) ==
    IF c.kind = "mss" THEN MSSStart(c, out) ELSE DXCamStart(c, out, rel)

StopOf(c, rel) ==
    IF c.kind = "mss" THEN MSSStop(c) ELSE DXCamStop(c, rel)

SetRegionOf(c, x, y, width, height) ==
    IF c.kind = "mss"
    THEN MSSSetRegion(c, x, y, width, height)
    ELSE DXCamSetRegion(c, x, y, width, height)
----------------------------------------------------------------------------
(* capture_frame *)

\* the screen area sct.grab copies for an MSS monitor dict, as <<x, y, w, h>>
MSSArea(r) == <<r.left, r.top, r.width, r.height>>

\* the screen area camera.grab copies for a DXcam region
\* (left, top, right, bottom), as <<x, y, w, h>>
DXCamArea(t) == <<t[1], t[2], t[3] - t[1], t[4] - t[2]>>

\* return None before the grab call is reached
Unavailable(c) == [c |-> c, ret |-> "None", area |-> NoRegion, exc |-> FALSE]

\* the try block around the grab call and its except clauses: an image is
\* returned as the frame, every failure of the grab becomes None
Grabbed(c, area, grab) ==
    [c |-> c, ret |-> IF grab = "ok" THEN "frame" ELSE "None", area |-> area, exc |-> FALSE]

\* faulty variant of MSSCaptureFrame: the region to capture is not checked
\* before the grab
MSSCaptureFrameUnchecked(c, region, grab) ==
    IF ~is_running(c) \/ c.handle = NoHandle
    THEN Unavailable(c)
    ELSE IF region # NoRegion /\ (region[3] <= 0 \/ region[4] <= 0)
    THEN Unavailable(c)
    ELSE Grabbed(c, MSSArea(IF region # NoRegion
                            THEN [top |-> region[2], left |-> region[1],
                                  width |-> region[3], height |-> region[4]]
                            ELSE c.region), grab)

\* region is the optional argument: NoRegion for None, else <<x, y, w, h>>
MSSCaptureFrame(c, region, grab) ==
    IF ~is_running(c) \/ c.handle = NoHandle
    THEN Unavailable(c)
    ELSE IF region # NoRegion /\ (region[3] <= 0 \/ region[4] <= 0)
    THEN Unavailable(c)
    ELSE LET capture_region ==
                 IF region # NoRegion
                 THEN [top |-> region[2], left |-> region[1],
                       width |-> region[3], height |-> region[4]]
                 ELSE c.region
         IN  IF capture_region.width <= 0 \/ capture_region.height <= 0
             THEN Unavailable(c)
             ELSE Grabbed(c, MSSArea(capture_region), grab)

\* faulty variant of DXCamCaptureFrame: a valid override becomes the stored region
DXCamCaptureFrameStoresOverride(c, region, grab) ==
    IF ~is_running(c) \/ c.handle = NoHandle
    THEN Unavailable(c)
    ELSE IF region # NoRegion /\ (region[3] <= 0 \/ region[4] <= 0)
    THEN Unavailable(c)
    ELSE LET dxcam_region_to_capture ==
                 IF region # NoRegion
                 THEN <<region[1], region[2], region[1] + region[3], region[2] + region[4]>>
                 ELSE c.region_for_dxcam
         IN  IF dxcam_region_to_capture = NoRegion
             THEN Unavailable(c)
             ELSE Grabbed([c EXCEPT !.region_for_dxcam = dxcam_region_to_capture],
                          DXCamArea(dxcam_region_to_capture), grab)

DXCamCaptureFrame(c, region, grab) ==
    IF ~is_running(c) \/ c.handle = NoHandle
    THEN Unavailable(c)
    ELSE IF region # NoRegion /\ (region[3] <= 0 \/ region[4] <= 0)
    THEN Unavailable(c)
    ELSE LET dxcam_region_to_capture ==
                 IF region # NoRegion
                 THEN <<region[1], region[2], region[1] + region[3], region[2] + region[4]>>
                 ELSE c.region_for_dxcam
         IN  IF dxcam_region_to_capture = NoRegion
             THEN Unavailable(c)
             ELSE Grabbed(c, DXCamArea(dxcam_region_to_capture), grab)

CaptureFrameOf(c, region, grab) ==
    IF c.kind = "mss"
    THEN MSSCaptureFrame(c, region, grab)
    ELSE DXCamCaptureFrame(c, region, grab)

----------------------------------------------------------------------------
(* Calls on a backend object the caller holds *)

\* the record kept of a completed call
Call(op, obj, out, exc, ret, arg, area) ==
    [op |-> op, obj |-> obj, out |-> out, exc |-> exc, ret |-> ret,
     arg |-> arg, area |-> area]

\* the <<x, y, width, height>> handed to set_region
Regions == {<<o[1], o[2], w, h>> : o \in Origins, w \in Sizes, h \in Sizes}
\* the optional region handed to capture_frame
RegionArgs ==
    {NoRegion} \cup {<<OverrideOrigin[1], OverrideOrigin[2], w, h>> : w \in Sizes, h \in Sizes}

ValidSize(reg) == reg[3] > 0 /\ reg[4] > 0

Idle == pc = "idle"

Start(o) ==
    /\ Idle
    /\ o \in held
    /\ \E out \in CreateOutcomes(objs[o].kind), rel \in ReleaseOutcomes :
         /\ out = "ok" => objs[o].acq < MaxAcq
         /\ LET r == StartOf(objs[o], out, rel)
            IN  /\ objs' = [objs EXCEPT ![o] = r.c]
                /\ last' = Call("start", o, out, r.exc, "None", NoRegion, NoRegion)
    /\ UNCHANGED <<active, pc, cfg, held, asked, detvars>>

Stop(o) ==
    /\ Idle
    /\ o \in held
    /\ \E rel \in ReleaseOutcomes :
         LET r == StopOf(objs[o], rel)
         IN  /\ objs' = [objs EXCEPT ![o] = r.c]
             /\ last' = Call("stop", o, rel, r.exc, "None", NoRegion, NoRegion)
    /\ UNCHANGED <<active, pc, cfg, held, asked, detvars>>

SetRegion(o) ==
    /\ Idle
    /\ o \in held
    /\ \E reg \in Regions :
         LET r == SetRegionOf(objs[o], reg[1], reg[2], reg[3], reg[4])
         IN  /\ objs' = [objs EXCEPT ![o] = r.c]
             /\ asked' = IF ValidSize(reg) THEN [asked EXCEPT ![o] = reg] ELSE asked
             /\ last' = Call("set_region", o, IF ValidSize(reg) THEN "valid" ELSE "invalid",
                             r.exc, "None", NoRegion, NoRegion)
    /\ UNCHANGED <<active, pc, cfg, held, detvars>>

CaptureFrame(o) ==
    /\ Idle
    /\ o \in held
    /\ \E reg \in RegionArgs, grab \in GrabOutcomes :
         LET r == CaptureFrameOf(objs[o], reg, grab)
         IN  /\ objs' = [objs EXCEPT ![o] = r.c]
             /\ last' = Call("capture_frame", o, grab, r.exc, r.ret, reg, r.area)
    /\ UNCHANGED <<active, pc, cfg, held, asked, detvars>>
----------------------------------------------------------------------------
(* The capture session: _active_capturer and the functions on it *)

\* configure_captura is modelled statement by statement, pc being the
\* caller's position in it; no other call starts while it is in progress.
\* cfg holds its locals, and the slot as the call found it.
NoCfg == [backend_choice |-> "", capturer |-> NoObj, prev |-> NoObj, prev_running |-> FALSE]

KnownBackend(choice) == Lower(choice) \in {"mss", "dxcam"}

\* "if _active_capturer and _active_capturer.is_running()"
ActiveIsRunning == active # NoObj /\ is_running(objs[active])

\* faulty variant of StopPrevious: the slot is cleared, the capturer not stopped
StopPreviousOnlyClears(rel) == <<objs, NoObj>>

\* the first statement of configure_captura: the running capturer in the slot
\* is stopped and the slot cleared; a slot that is empty, or holds a capturer
\* that is not running, is left as it is.  The result is <<objs, active>>.
StopPrevious(rel) ==
    IF ActiveIsRunning
    THEN <<[objs EXCEPT ![active] = StopOf(objs[active], rel).c], NoObj>>
    ELSE <<objs, active>>

ConfigureBegin ==
    /\ Idle
    /\ \E choice \in BackendChoices, rel \in ReleaseOutcomes :
         /\ KnownBackend(choice) => Len(objs) < MaxObjs
         /\ objs' = StopPrevious(rel)[1]
         /\ active' = StopPrevious(rel)[2]
         /\ cfg' = [backend_choice |-> choice, capturer |-> NoObj,
                    prev |-> active, prev_running |-> ActiveIsRunning]
    /\ pc' = "construct"
    /\ UNCHANGED <<last, held, asked, detvars>>

\* the if / elif / else on backend_choice.lower()
ConfigureConstruct ==
    /\ pc = "construct"
    /\ IF KnownBackend(cfg.backend_choice)
       THEN /\ objs' = Append(objs, IF Lower(cfg.backend_choice) = "mss"
                                    THEN MSSCapturer ELSE DXCamCapturer)
            /\ asked' = Append(asked, NoRegion)
            /\ cfg' = [cfg EXCEPT !.capturer = Len(objs) + 1]
            /\ pc' = "start"
            /\ UNCHANGED last
       ELSE /\ last' = Call("configure_captura", NoObj, "unknown", FALSE, "None",
                            NoRegion, NoRegion)
            /\ pc' = "idle"
            /\ UNCHANGED <<objs, asked, cfg>>
    /\ UNCHANGED <<active, held, detvars>>

\* capturer.start()
ConfigureStart ==
    /\ pc = "start"
    /\ \E out \in CreateOutcomes(objs[cfg.capturer].kind), rel \in ReleaseOutcomes :
         objs' = [objs EXCEPT ![cfg.capturer] = StartOf(objs[cfg.capturer], out, rel).c]
    /\ pc' = "check"
    /\ UNCHANGED <<active, cfg, last, held, asked, detvars>>

\* faulty variant of ConfigureResult: is_running() is not consulted
ConfigureResultUnchecked == <<cfg.capturer, cfg.capturer>>

\* the slot and the return value once capturer.start() has returned:
\* <<_active_capturer, returned object>>
ConfigureResult ==
    IF ~is_running(objs[cfg.capturer])
    THEN <<active, NoObj>>
    ELSE <<cfg.capturer, cfg.capturer>>

ConfigureFinish ==
    /\ pc = "check"
    /\ active' = ConfigureResult[1]
    /\ last' = Call("configure_captura", ConfigureResult[2],
                    IF ConfigureResult[2] = NoObj THEN "start_failed" ELSE "ok", FALSE,
                    IF ConfigureResult[2] = NoObj THEN "None" ELSE "capturer",
                    NoRegion, NoRegion)
    /\ held' = IF ConfigureResult[2] = NoObj THEN held ELSE held \cup {ConfigureResult[2]}
    /\ pc' = "idle"
    /\ UNCHANGED <<objs, cfg, asked, detvars>>

GetActiveCapturer ==
    /\ Idle
    /\ last' = Call("get_active_capturer", active, "ok", FALSE,
                    IF active = NoObj THEN "None" ELSE "capturer", NoRegion, NoRegion)
    /\ held' = IF active = NoObj THEN held ELSE held \cup {active}
    /\ UNCHANGED <<objs, active, pc, cfg, asked, detvars>>

\* faulty variant of StopActiveResult: the slot is cleared, the capturer not stopped
StopActiveOnlyClears(rel) == <<objs, NoObj, FALSE>>

\* stop_active_capturer: <<objs, _active_capturer, an exception escaped>> after it
StopActiveResult(rel) ==
    IF ActiveIsRunning
    THEN <<[objs EXCEPT ![active] = StopOf(objs[active], rel).c], NoObj,
           StopOf(objs[active], rel).exc>>
    ELSE <<objs, NoObj, FALSE>>

StopActiveCapturer ==
    /\ Idle
    /\ \E rel \in ReleaseOutcomes :
         /\ objs' = StopActiveResult(rel)[1]
         /\ active' = StopActiveResult(rel)[2]
         /\ last' = Call("stop_active_capturer", active, rel, StopActiveResult(rel)[3],
                         "None", NoRegion, NoRegion)
    /\ UNCHANGED <<pc, cfg, held, asked, detvars>>

----------------------------------------------------------------------------
(* The template library of src/monster_detector.py                         *)
(*                                                                         *)
(* An image is a sequence of rows, a row a sequence of pixels; <<>> is the *)
(* array of size 0.  A colour pixel is <<blue, green, red>>, a grayscale   *)
(* pixel a number.  A dict is the sequence of its [k, v] items in          *)
(* insertion order.  The sprite folder is an input of every load: a        *)
(* listing of entries, each a plain file or an entity folder with its      *)
(* files, each file with what cv2.imread makes of it.                      *)

\* the variables of the capture layer (src/screen_capture.py)
capvars == <<objs, active, pc, cfg, last, held, asked>>

\* number of carregar_templates calls after the one __init__ makes
MaxLoads == 2

Blue == <<255, 0, 0>>
Red == <<0, 0, 255>>

\* the luma of a BGR pixel, as cv2.IMREAD_GRAYSCALE and cv2.COLOR_BGR2GRAY compute it
BGR2GRAY(px) == (114 * px[1] + 587 * px[2] + 299 * px[3] + 500) \div 1000

ToGray(img) == [r \in 1..Len(img) |-> [c \in 1..Len(img[r]) |-> BGR2GRAY(img[r][c])]]

\* numpy shape[0], shape[1] and size of an image
Rows(img) == Len(img)
Cols(img) == IF Len(img) = 0 THEN 0 ELSE Len(img[1])
Size(img) == Rows(img) * Cols(img)

\* the sprites on disk
Wall == <<<<Red, Red>>>>
Bar == <<<<Red, Blue>>>>
Sq == <<<<Red, Blue>>, <<Blue, Blue>>>>
NoPixels == <<>>
\* two sprites that are only templates
Strip == <<<<Red, Blue, Red>>>>
Pole == <<<<Red>>, <<Blue>>, <<Red>>>>

Sprites == {Wall, Bar, Sq}

\* what cv2.imread does with a file: it returns None, it raises, or it returns the pixels
DecodeFailures == {"undecodable", "raises"}

File(stem, ext, data) == [stem |-> stem, ext |-> ext, data |-> data]
Folder(name, files) == [name |-> name, isdir |-> TRUE, files |-> files]
PlainFile(name) == [name |-> name, isdir |-> FALSE, files |-> <<>>]

\* str.lower() on the extensions above
LowerExt(ext) == IF ext = "PNG" THEN "png" ELSE ext

\* faulty variant of FileName: the name is kept in lower case
FileNameLowered(f) == <<f.stem, LowerExt(f.ext)>>

\* the name os.listdir gives for a file
FileName(f) == <<f.stem, f.ext>>

\* nome_arquivo_sprite.lower().endswith(".png")
IsPng(f) == LowerExt(f.ext) = "png"

\* cv2.imread(caminho_sprite, cv2.IMREAD_GRAYSCALE) on a file that decodes
imread(f) == ToGray(f.data)

\* states of the sprite folder
MissingDisk == [isdir |-> FALSE, entries |-> <<>>]
EmptyDisk == [isdir |-> TRUE, entries |-> <<>>]
OneEntityDisk == [isdir |-> TRUE, entries |-> <<Folder("Zombie", <<File("front", "png", Bar)>>)>>]
TwoEntityDisk ==
    [isdir |-> TRUE,
     entries |-> <<PlainFile("readme.txt"),
                   Folder("Poring", <<File("blank", "png", NoPixels), File("strip", "png", Strip),
                                      File("pole", "png", Pole), File("idle", "png", Bar)>>),
                   Folder("Zombie", <<File("front", "png", Wall), File("side", "PNG", Sq),
                                      File("notes", "txt", "undecodable")>>)>>]
DamagedDisk ==
    [isdir |-> TRUE,
     entries |-> <<Folder("Zombie", <<File("broken", "png", "undecodable"),
                                      File("locked", "png", "raises")>>),
                   Folder("Poring", <<File("blank", "png", NoPixels),
                                      File("idle", "png", Bar)>>)>>]

Disks == {MissingDisk, EmptyDisk, OneEntityDisk, TwoEntityDisk, DamagedDisk}

\* dict and defaultdict(list)
DictKeys(d) == {d[i].k : i \in DOMAIN d}
DictGet(d, k) == d[CHOOSE i \in DOMAIN d : d[i].k = k].v
\* d[k].append(x) on a defaultdict(list)
DictAppend(d, k, x) ==
    IF k \in DictKeys(d)
    THEN [i \in DOMAIN d |-> IF d[i].k = k THEN [k |-> k, v |-> Append(d[i].v, x)] ELSE d[i]]
    ELSE Append(d, [k |-> k, v |-> <<x>>])
\* d[k] on a defaultdict(list): a missing key is created with an empty list
DictTouch(d, k) == IF k \in DictKeys(d) THEN d ELSE Append(d, [k |-> k, v |-> <<>>])

\* loaded_templates and loaded_filenames before the scan
EmptyLoad == [templates |-> <<>>, filenames |-> <<>>]

\* faulty variant of LoadFile: the entity's lists are looked up before the file is decoded
LoadFileTouchesKey(acc, nome, f) ==
    IF ~IsPng(f)
    THEN acc
    ELSE IF f.data \in DecodeFailures
    THEN [templates |-> DictTouch(acc.templates, nome),
          filenames |-> DictTouch(acc.filenames, nome)]
    ELSE [templates |-> DictAppend(acc.templates, nome, imread(f)),
          filenames |-> DictAppend(acc.filenames, nome, FileName(f))]

\* the body of the loop over the files of one entity folder
LoadFile(acc, nome, f) ==
    IF ~IsPng(f)
    THEN acc
    ELSE IF f.data \in DecodeFailures
    THEN acc
    ELSE [templates |-> DictAppend(acc.templates, nome, imread(f)),
          filenames |-> DictAppend(acc.filenames, nome, FileName(f))]

RECURSIVE LoadFiles(_, _, _, _)
\* for nome_arquivo_sprite in os.listdir(caminho_pasta_monstro), from the i-th file on
LoadFiles(acc, nome, files, i) ==
    IF i > Len(files)
    THEN acc
    ELSE LoadFiles(LoadFile(acc, nome, files[i]), nome, files, i + 1)

RECURSIVE LoadFolders(_, _, _)
\* for nome_pasta_monstro in os.listdir(self.pasta_sprites), from the i-th entry on
LoadFolders(acc, entries, i) ==
    IF i > Len(entries)
    THEN acc
    ELSE LoadFolders(IF entries[i].isdir
                     THEN LoadFiles(acc, entries[i].name, entries[i].files, 1)
                     ELSE acc,
                     entries, i + 1)

\* the fields __init__ sets before its first load; templates_id counts the
\* assignments to self.templates, so that it names the dict object
NewDetector ==
    [templates |-> <<>>, template_filenames |-> <<>>, cache_loaded |-> FALSE,
     templates_id |-> 0]

\* faulty variant of NotLoaded: the cache flag is left as it was
NotLoadedKeepsFlag(d) ==
    [templates |-> <<>>, template_filenames |-> <<>>, cache_loaded |-> d.cache_loaded,
     templates_id |-> d.templates_id + 1]

\* the detector after a load that found pasta_sprites not to be a directory
NotLoaded(d) ==
    [templates |-> <<>>, template_filenames |-> <<>>, cache_loaded |-> FALSE,
     templates_id |-> d.templates_id + 1]

\* faulty variant of Loaded: the library counts as loaded only if it is not empty
LoadedIfAny(d, acc) ==
    [templates |-> acc.templates, template_filenames |-> acc.filenames,
     cache_loaded |-> acc.templates # <<>>, templates_id |-> d.templates_id + 1]

\* the detector after a load that scanned pasta_sprites into acc
Loaded(d, acc) ==
    [templates |-> acc.templates, template_filenames |-> acc.filenames,
     cache_loaded |-> TRUE, templates_id |-> d.templates_id + 1]

\* faulty variant of CarregarTemplates: the cache flag is not consulted
CarregarTemplatesAlways(d, disk, forcar_recarregar) ==
    IF ~disk.isdir
    THEN [d |-> NotLoaded(d), read |-> TRUE]
    ELSE [d |-> Loaded(d, LoadFolders(EmptyLoad, disk.entries, 1)), read |-> TRUE]

\* carregar_templates: the detector after the call, and whether the folder was read
CarregarTemplates(d, disk, forcar_recarregar) ==
    IF d.cache_loaded /\ ~forcar_recarregar
    THEN [d |-> d, read |-> FALSE]
    ELSE IF ~disk.isdir
    THEN [d |-> NotLoaded(d), read |-> TRUE]
    ELSE [d |-> Loaded(d, LoadFolders(EmptyLoad, disk.entries, 1)), read |-> TRUE]

\* the record kept of a completed carregar_templates call: its number, its
\* argument, the folder as it was, the detector before it, whether it read the
\* folder, and the folder as the latest call that read it found it
LoadCall(n, forcar_recarregar, disk, before, read, scanned) ==
    [n |-> n, forcar_recarregar |-> forcar_recarregar, disk |-> disk,
     before |-> before, read |-> read, scanned |-> scanned]

NoLoad == LoadCall(0, FALSE, MissingDisk, NewDetector, FALSE, MissingDisk)

\* no detectar_monstros result is being held
NoDetection == [called |-> FALSE]

CarregarTemplatesCall ==
    /\ loadcall.n <= MaxLoads
    /\ \E disk \in Disks, forcar_recarregar \in BOOLEAN :
         LET r == CarregarTemplates(detector, disk, forcar_recarregar)
         IN  /\ detector' = r.d
             /\ loadcall' = LoadCall(loadcall.n + 1, forcar_recarregar, disk, detector, r.read,
                                     IF r.read THEN disk ELSE loadcall.scanned)
    /\ UNCHANGED <<capvars, detcall>>

----------------------------------------------------------------------------
(* The detection engine of src/monster_detector.py                         *)
(*                                                                         *)
(* cv2.matchTemplate with TM_CCOEFF_NORMED is computed exactly: the score  *)
(* of a cell is the correlation coefficient c of the template and the      *)
(* window at that cell, written as the fraction sign(c) * c^2 in lowest    *)
(* terms, [n |-> numerator, d |-> denominator].  The map c |-> sign(c)*c^2 *)
(* is strictly increasing, so order and equality of scores are those of    *)
(* the fractions; a threshold is written the same way.  Rounding to        *)
(* float32 is left out.                                                    *)

\* frames are at most MaxFrameH rows by MaxFrameW columns
MaxFrameH == 2
MaxFrameW == 3

\* the background of a frame
Dark == <<50, 50, 50>>

BlankFrame(h, w) == [r \in 1..h |-> [c \in 1..w |-> Dark]]

\* frame[y:y+sh, x:x+sw] = sprite
Paste(frame, sprite, x, y) ==
    [r \in 1..Len(frame) |->
        [c \in 1..Len(frame[r]) |->
            IF r - y \in 1..Rows(sprite) /\ c - x \in 1..Cols(sprite)
            THEN sprite[r - y][c - x]
            ELSE frame[r][c]]]

\* the frames handed to detectar_monstros: a background, with or without one
\* sprite copied into it
Frames ==
    {BlankFrame(h, w) : h \in 1..MaxFrameH, w \in 1..MaxFrameW}
    \cup UNION {UNION {{Paste(BlankFrame(h, w), s, x, y) :
                            x \in 0..(w - Cols(s)), y \in 0..(h - Rows(s))} :
                        h \in 1..MaxFrameH, w \in 1..MaxFrameW} : s \in Sprites}

RECURSIVE GCD(_, _)
GCD(a, b) == IF b = 0 THEN a ELSE GCD(b, a % b)

Abs(x) == IF x < 0 THEN 0 - x ELSE x

\* the fraction n / d, d > 0, in lowest terms
Fraction(n, d) == [n |-> n \div GCD(Abs(n), d), d |-> d \div GCD(Abs(n), d)]

\* sign(p / q) * (p / q)^2 for q > 0
SignedSquare(p, q) == Fraction(IF p < 0 THEN 0 - p * p ELSE p * p, q * q)

\* a >= b on fractions
AtLeast(a, b) == a.n * b.d >= b.n * a.d

\* the thresholds handed to detectar_monstros: -0.5, 0.5, 0.7, 0.8 and 1.0
Thresholds ==
    {SignedSquare(0 - 1, 2), SignedSquare(1, 2), SignedSquare(7, 10), SignedSquare(4, 5),
     SignedSquare(1, 1)}

\* monstros_alvo: None, or a list of names
NoTargets == [given |-> FALSE, names |-> <<>>]
TargetList(names) == [given |-> TRUE, names |-> names]
Targets ==
    {NoTargets, TargetList(<<>>), TargetList(<<"Zombie">>), TargetList(<<"Ghost">>),
     TargetList(<<"Poring", "Zombie">>), TargetList(<<"Zombie", "Ghost", "Poring", "Zombie">>)}

\* the templates, <<entity, position in its list>>, on which cv2.matchTemplate
\* raises cv2.error during one call
FailingChoices == {{}, {<<"Zombie", 1>>}, {<<"Poring", 2>>}}

RECURSIVE SeqSum(_)
SeqSum(s) == IF s = <<>> THEN 0 ELSE s[1] + SeqSum(Tail(s))

\* the pixels of the h x w window of img whose top-left corner is at row, col, row by row
Window(img, row, col, h, w) ==
    [k \in 1..(h * w) |-> img[row + ((k - 1) \div w) + 1][col + ((k - 1) % w) + 1]]

Dot(a, b) == SeqSum([k \in DOMAIN a |-> a[k] * b[k]])

\* n times the covariance of two pixel lists of length n
Cov(a, b) == Len(a) * Dot(a, b) - SeqSum(a) * SeqSum(b)

\* faulty variant of TM_CCOEFF_NORMED: the normalised squared difference
\* (cv2.TM_SQDIFF_NORMED), whose best match is its lowest value
TM_SQDIFF_NORMED(t, i) ==
    IF Dot(t, t) * Dot(i, i) = 0
    THEN Fraction(1, 1)
    ELSE Fraction((Dot(t, t) - 2 * Dot(t, i) + Dot(i, i))
                      * (Dot(t, t) - 2 * Dot(t, i) + Dot(i, i)),
                  Dot(t, t) * Dot(i, i))

\* the score of template pixels t against window pixels i: 1 everywhere for a
\* template without variance, 0 for a window without variance
TM_CCOEFF_NORMED(t, i) ==
    IF Cov(t, t) = 0
    THEN Fraction(1, 1)
    ELSE IF Cov(i, i) = 0
    THEN Fraction(0, 1)
    ELSE Fraction((IF Cov(t, i) < 0 THEN 0 - 1 ELSE 1) * Cov(t, i) * Cov(t, i),
                  Cov(t, t) * Cov(i, i))

\* cv2.matchTemplate(image, templ, cv2.TM_CCOEFF_NORMED): res[row][col], rows
\* and columns counted from 0
matchTemplate(image, templ) ==
    [row \in 0..(Rows(image) - Rows(templ)) |->
        [col \in 0..(Cols(image) - Cols(templ)) |->
            TM_CCOEFF_NORMED(Window(templ, 0, 0, Rows(templ), Cols(templ)),
                             Window(image, row, col, Rows(templ), Cols(templ)))]]

\* faulty variant of DictSet: every assignment adds an item, present key or not
DictSetAppends(d, k, v) == Append(d, [k |-> k, v |-> v])

\* monstros_a_procurar[nome] = lista on a dict
DictSet(d, k, v) ==
    IF k \in DictKeys(d)
    THEN [i \in DOMAIN d |-> IF d[i].k = k THEN [k |-> k, v |-> v] ELSE d[i]]
    ELSE Append(d, [k |-> k, v |-> v])

RECURSIVE SelectTargets(_, _, _, _)
\* for nome_monstro in monstros_alvo, from the i-th name on
SelectTargets(acc, templates, names, i) ==
    IF i > Len(names)
    THEN acc
    ELSE SelectTargets(IF names[i] \in DictKeys(templates)
                       THEN DictSet(acc, names[i], DictGet(templates, names[i]))
                       ELSE acc,
                       templates, names, i + 1)

\* monstros_a_procurar: None and the empty list are both falsy
MonstrosAProcurar(templates, monstros_alvo) ==
    IF monstros_alvo.given /\ monstros_alvo.names # <<>>
    THEN SelectTargets(<<>>, templates, monstros_alvo.names, 1)
    ELSE templates

\* faulty variant of Skipped: a template as tall or as wide as the frame is skipped too
SkippedUnlessSmaller(frame_gray, template_img_gray) ==
    \/ Size(template_img_gray) = 0
    \/ Rows(frame_gray) <= Rows(template_img_gray)
    \/ Cols(frame_gray) <= Cols(template_img_gray)

\* the two tests that skip a template before it is matched
Skipped(frame_gray, template_img_gray) ==
    \/ Size(template_img_gray) = 0
    \/ Rows(frame_gray) < Rows(template_img_gray)
    \/ Cols(frame_gray) < Cols(template_img_gray)

\* faulty variant of Passes: the comparison is turned around
PassesBelow(score, threshold) == AtLeast(threshold, score)

\* res >= threshold
Passes(score, threshold) == AtLeast(score, threshold)

\* faulty variant of Detection: the cell is written as (row, column)
DetectionTransposed(nome_monstro, x, y, w, h, confianca, sprite_usado) ==
    [nome |-> nome_monstro, regiao |-> <<y, x, w, h>>, confianca |-> confianca,
     sprite_usado |-> sprite_usado]

\* the dict appended for the cell pt = (x, y) of template i of nome_monstro
Detection(nome_monstro, x, y, w, h, confianca, sprite_usado) ==
    [nome |-> nome_monstro, regiao |-> <<x, y, w, h>>, confianca |-> confianca,
     sprite_usado |-> sprite_usado]

\* the cells np.where(res >= threshold) yields, in its row-major order, as <<x, y>>
Where(res, threshold) ==
    LET nrows == Cardinality(DOMAIN res)
        ncols == Cardinality(DOMAIN res[0])
        cells == [k \in 1..(nrows * ncols) |-> <<(k - 1) % ncols, (k - 1) \div ncols>>]
    IN  SelectSeq(cells, LAMBDA pt : Passes(res[pt[2]][pt[1]], threshold))

\* faulty variant of DetectionsOf: shape is read as (width, height)
DetectionsOfSwappedSize(res, threshold, nome_monstro, w, h, sprite_usado) ==
    [k \in DOMAIN Where(res, threshold) |->
        Detection(nome_monstro, Where(res, threshold)[k][1], Where(res, threshold)[k][2],
                  h, w,
                  res[Where(res, threshold)[k][2]][Where(res, threshold)[k][1]],
                  sprite_usado)]

\* the detections one matched template appends
DetectionsOf(res, threshold, nome_monstro, w, h, sprite_usado) ==
    [k \in DOMAIN Where(res, threshold) |->
        Detection(nome_monstro, Where(res, threshold)[k][1], Where(res, threshold)[k][2],
                  w, h,
                  res[Where(res, threshold)[k][2]][Where(res, threshold)[k][1]],
                  sprite_usado)]

\* the loops' progress: the detections so far, the templates handed to
\* cv2.matchTemplate so far, and whether an exception has escaped
NoProgress == [detections |-> <<>>, attempted |-> <<>>, exc |-> FALSE]

\* faulty variant of MatchOne: cv2.matchTemplate is called outside any try
MatchOneUnguarded(acc, d, frame_gray, threshold, failing, nome_monstro, i, template_img_gray) ==
    IF acc.exc \/ Skipped(frame_gray, template_img_gray)
    THEN acc
    ELSE IF <<nome_monstro, i>> \in failing
    THEN [acc EXCEPT !.attempted = Append(@, <<nome_monstro, i>>), !.exc = TRUE]
    ELSE [acc EXCEPT
            !.attempted = Append(@, <<nome_monstro, i>>),
            !.detections = @ \o DetectionsOf(matchTemplate(frame_gray, template_img_gray),
                                             threshold, nome_monstro,
                                             Cols(template_img_gray), Rows(template_img_gray),
                                             DictGet(d.template_filenames, nome_monstro)[i])]

\* the body of the loop over the templates of one entity
MatchOne(acc, d, frame_gray, threshold, failing, nome_monstro, i, template_img_gray) ==
    IF acc.exc \/ Skipped(frame_gray, template_img_gray)
    THEN acc
    ELSE IF <<nome_monstro, i>> \in failing
    THEN [acc EXCEPT !.attempted = Append(@, <<nome_monstro, i>>)]
    ELSE [acc EXCEPT
            !.attempted = Append(@, <<nome_monstro, i>>),
            !.detections = @ \o DetectionsOf(matchTemplate(frame_gray, template_img_gray),
                                             threshold, nome_monstro,
                                             Cols(template_img_gray), Rows(template_img_gray),
                                             DictGet(d.template_filenames, nome_monstro)[i])]

RECURSIVE MatchList(_, _, _, _, _, _, _, _)
\* for i, template_img_gray in enumerate(lista_templates_img), from the i-th on
MatchList(acc, d, frame_gray, threshold, failing, nome_monstro, lista_templates_img, i) ==
    IF i > Len(lista_templates_img)
    THEN acc
    ELSE MatchList(MatchOne(acc, d, frame_gray, threshold, failing, nome_monstro, i,
                            lista_templates_img[i]),
                   d, frame_gray, threshold, failing, nome_monstro, lista_templates_img, i + 1)

RECURSIVE MatchAll(_, _, _, _, _, _, _)
\* for nome_monstro, lista_templates_img in monstros_a_procurar.items(), from the j-th on
MatchAll(acc, d, frame_gray, threshold, failing, monstros_a_procurar, j) ==
    IF j > Len(monstros_a_procurar)
    THEN acc
    ELSE MatchAll(MatchList(acc, d, frame_gray, threshold, failing,
                            monstros_a_procurar[j].k, monstros_a_procurar[j].v, 1),
                  d, frame_gray, threshold, failing, monstros_a_procurar, j + 1)

RECURSIVE InsertByConfianca(_, _)
\* x put behind every element of the sorted list whose confianca is not lower
InsertByConfianca(sorted, x) ==
    IF sorted = <<>>
    THEN <<x>>
    ELSE IF AtLeast(sorted[1].confianca, x.confianca)
    THEN <<sorted[1]>> \o InsertByConfianca(Tail(sorted), x)
    ELSE <<x>> \o sorted

RECURSIVE SortFrom(_, _, _)
SortFrom(sorted, detections, i) ==
    IF i > Len(detections)
    THEN sorted
    ELSE SortFrom(InsertByConfianca(sorted, detections[i]), detections, i + 1)

\* faulty variant of SortByConfianca: the list is left in the order of the loops
LeaveUnsorted(detections) == detections

\* detections.sort(key=lambda d: d["confianca"], reverse=True): stable
SortByConfianca(detections) == SortFrom(<<>>, detections, 1)

\* detectar_monstros: the list returned, the templates handed to
\* cv2.matchTemplate, and whether an exception escaped
DetectarMonstros(d, frame, threshold, monstros_alvo, failing) ==
    IF d.templates = <<>>
    THEN NoProgress
    ELSE IF MonstrosAProcurar(d.templates, monstros_alvo) = <<>>
    THEN NoProgress
    ELSE LET done == MatchAll(NoProgress, d, ToGray(frame), threshold, failing,
                              MonstrosAProcurar(d.templates, monstros_alvo), 1)
         IN  [done EXCEPT !.detections = IF @ # <<>> THEN SortByConfianca(@) ELSE @]

\* the record kept of a detectar_monstros call whose result the caller holds
DetectionCall(frame, threshold, monstros_alvo, failing, r) ==
    [called |-> TRUE, frame |-> frame, threshold |-> threshold,
     monstros_alvo |-> monstros_alvo, failing |-> failing,
     ret |-> r.detections, attempted |-> r.attempted, exc |-> r.exc]

DetectarMonstrosCall ==
    /\ ~detcall.called
    /\ \E frame \in Frames, threshold \in Thresholds, monstros_alvo \in Targets,
          failing \in FailingChoices :
         detcall' = DetectionCall(frame, threshold, monstros_alvo, failing,
                                  DetectarMonstros(detector, frame, threshold,
                                                   monstros_alvo, failing))
    /\ UNCHANGED <<capvars, detector, loadcall>>

\* the caller has used the list and lets go of it
DiscardDetections ==
    /\ detcall.called
    /\ detcall' = NoDetection
    /\ UNCHANGED <<capvars, detector, loadcall>>

----------------------------------------------------------------------------
(* Specifications *)

NoCall == Call("none", NoObj, "ok", FALSE, "None", NoRegion, NoRegion)

\* the module as imported: no capturer constructed, the slot empty
Init ==
    /\ objs = <<>>
    /\ active = NoObj
    /\ pc = "idle"
    /\ cfg = NoCfg
    /\ last = NoCall
    /\ held = {}
    /\ asked = <<>>
    /\ detector = NewDetector
    /\ loadcall = NoLoad
    /\ detcall = NoDetection

Configure == ConfigureBegin \/ ConfigureConstruct \/ ConfigureStart \/ ConfigureFinish

\* a single caller using the session functions and, as the module's own
\* __main__ block does, calling stop() on a capturer the session handed it
Next ==
    \/ Configure
    \/ GetActiveCapturer
    \/ StopActiveCapturer
    \/ \E o \in held : Stop(o)

Spec == Init /\ [][Next]_vars

\* one backend object of either class, constructed directly by its caller
InitBackend ==
    /\ objs \in {<<MSSCapturer>>, <<DXCamCapturer>>}
    /\ active = NoObj
    /\ pc = "idle"
    /\ cfg = NoCfg
    /\ last = NoCall
    /\ held = {1}
    /\ asked = <<NoRegion>>
    /\ detector = NewDetector
    /\ loadcall = NoLoad
    /\ detcall = NoDetection

NextBackend ==
    \/ Start(1)
    \/ Stop(1)
    \/ SetRegion(1)
    \/ CaptureFrame(1)

SpecBackend == InitBackend /\ [][NextBackend]_vars

\* a detector as MonsterDetector(pasta_sprites) leaves it: __init__ has made
\* its one carregar_templates() call on the folder as it was then
InitLibrary ==
    /\ objs = <<>>
    /\ active = NoObj
    /\ pc = "idle"
    /\ cfg = NoCfg
    /\ last = NoCall
    /\ held = {}
    /\ asked = <<>>
    /\ \E disk \in Disks :
         /\ detector = CarregarTemplates(NewDetector, disk, FALSE).d
         /\ loadcall = LoadCall(1, FALSE, disk, NewDetector,
                                CarregarTemplates(NewDetector, disk, FALSE).read, disk)
    /\ detcall = NoDetection

NextLibrary == CarregarTemplatesCall

SpecLibrary == InitLibrary /\ [][NextLibrary]_vars

NextDetect ==
    \/ DetectarMonstrosCall
    \/ DiscardDetections

\* a constructed detector whose owner calls detectar_monstros frame after frame
SpecDetect == InitLibrary /\ [][NextDetect]_vars
----------------------------------------------------------------------------
(* Properties of the capture session, under Spec *)

Running == {o \in DOMAIN objs : is_running(objs[o])}

\* C1: whatever calls the single caller has made, and wherever it is inside
\* configure_captura, at most one of the capturers configure_captura
\* constructed is running.
C1_AtMostOneRunning == Cardinality(Running) <= 1

\* a second capturer runs after configure_captura found the first one running
C1_Witness ==
    /\ Idle
    /\ cfg.prev_running
    /\ cfg.capturer # NoObj
    /\ Running = {cfg.capturer}
    /\ objs[cfg.prev].acq > 0

\* configure_captura has just returned from a call that failed: the backend
\* kind is unknown, or the new capturer is not running after its start()
ConfigureFailed ==
    /\ Idle
    /\ last.op = "configure_captura"
    /\ (~KnownBackend(cfg.backend_choice) \/ ~is_running(objs[cfg.capturer]))

C3_PreviousStoppedFirst ==
    (pc \in {"construct", "start"} /\ cfg.prev_running) =>
        /\ ~is_running(objs[cfg.prev])
        /\ objs[cfg.prev].handle = NoHandle
        /\ objs[cfg.prev].opened = {}
        /\ active = NoObj
        /\ pc = "construct" => cfg.capturer = NoObj
        /\ pc = "start" => objs[cfg.capturer].acq = 0

\* the new capturer is about to be started and the previous one had a handle
C3_Witness ==
    /\ pc = "start"
    /\ cfg.prev_running
    /\ objs[cfg.prev].acq > 0
    /\ cfg.capturer = Len(objs)

\* C4: stop_active_capturer raises nothing; with an empty slot it changes no
\* capturer; a capturer in the slot is not running afterwards; the slot is
\* empty afterwards, so that get_active_capturer() returns None.
C4_StopActiveSafe ==
    [][(Idle /\ pc' = "idle" /\ last'.op = "stop_active_capturer") =>
          /\ ~last'.exc
          /\ active = NoObj => objs' = objs
          /\ active # NoObj => ~is_running(objs'[active])
          /\ active' = NoObj
          /\ held' = held /\ asked' = asked]_vars

\* stop_active_capturer has stopped a running capturer
C4_Witness ==
    /\ last.op = "stop_active_capturer"
    /\ last.obj # NoObj
    /\ objs[last.obj].acq > 0
    /\ objs[last.obj].opened = {}
    /\ active = NoObj

----------------------------------------------------------------------------
(* Properties of one backend object, under SpecBackend *)

\* C5: when stop() has returned, every handle the object acquired has been
\* released.
C5_StopReleasesEveryHandle ==
    last.op = "stop" => objs[last.obj].opened = {}

\* C6: stop() raises nothing and leaves the backend not running with no handle;
\* on a backend that is not running and has no handle (never started, or
\* stopped) it changes nothing, so that a second stop() repeats the first.
C6_StopIdempotent ==
    [][last'.op = "stop" =>
          /\ ~last'.exc
          /\ ~is_running(objs'[last'.obj])
          /\ objs'[last'.obj].handle = NoHandle
          /\ (~is_running(objs[last'.obj]) /\ objs[last'.obj].handle = NoHandle)
                => objs' = objs]_vars

\* stop() has returned on a backend that had been started
C6_Witness ==
    /\ last.op = "stop"
    /\ objs[last.obj].acq > 0
    /\ ~is_running(objs[last.obj])

\* C7: when start() fails the backend is not running, no exception escapes and
\* every handle acquired before the failing step has been released.
C7_FailedStartReleasesEveryHandle ==
    (last.op = "start" /\ last.out # "ok") =>
        /\ ~is_running(objs[last.obj])
        /\ ~last.exc
        /\ objs[last.obj].opened = {}

\* C8: set_region with width <= 0 or height <= 0 raises nothing and leaves the
\* backend as it was: region, DXcam region, running flag and handle.
C8_InvalidSetRegionNoOp ==
    [][(last'.op = "set_region" /\ last'.out = "invalid") =>
          /\ ~last'.exc
          /\ objs' = objs]_vars

\* an invalid set_region on a backend whose region had been set
C8_Witness ==
    /\ last.op = "set_region"
    /\ last.out = "invalid"
    /\ asked[last.obj] # NoRegion
    /\ objs[last.obj].region.width > 0

\* C9: on a running backend, capture_frame() without a region argument grabs
\* exactly the area of the last valid set_region call.
C9_CaptureUsesSetRegion ==
    (/\ last.op = "capture_frame"
     /\ last.arg = NoRegion
     /\ is_running(objs[last.obj])
     /\ asked[last.obj] # NoRegion) => last.area = asked[last.obj]

\* a DXcam capture without argument returned a frame of the region set
C9_Witness ==
    /\ last.op = "capture_frame"
    /\ last.arg = NoRegion
    /\ last.ret = "frame"
    /\ objs[last.obj].kind = "dxcam"
    /\ last.area = asked[last.obj]

\* the cases in which capture_frame is said to return None
C10_ListedCase ==
    \/ ~is_running(objs[last.obj])
    \/ asked[last.obj] = NoRegion /\ last.arg = NoRegion
    \/ last.arg # NoRegion /\ ~ValidSize(last.arg)
    \/ last.out = "transient"

Observable(r) == <<r.ret, r.exc, r.c>>

\* C11: whenever a capture_frame call reaches the grab, the outcome the
\* caller observes when the grab raises an unexpected exception (a fatal
\* backend fault) differs from the outcome it observes when the grab reports
\* a transient miss.
C11_FatalDistinguishable ==
    \A o \in DOMAIN objs : \A reg \in RegionArgs :
        CaptureFrameOf(objs[o], reg, "fatal").area # NoRegion =>
            Observable(CaptureFrameOf(objs[o], reg, "fatal"))
                # Observable(CaptureFrameOf(objs[o], reg, "transient"))

----------------------------------------------------------------------------
(* Properties of the template library, under SpecLibrary *)

\* the last carregar_templates call found the library loaded and did not force
CacheHit ==
    /\ loadcall.n >= 1
    /\ loadcall.before.cache_loaded
    /\ ~loadcall.forcar_recarregar

\* C19: a carregar_templates(forcar_recarregar=False) call on a loaded
\* library reads neither the folder nor a file and leaves templates,
\* template_filenames and the cache flag as they were, templates being the
\* same dict object as before the call.
C19_CacheHitNoOp ==
    CacheHit =>
        /\ ~loadcall.read
        /\ detector = loadcall.before

\* a cache hit while the folder holds something else than what is loaded
C19_Witness ==
    /\ CacheHit
    /\ loadcall.n >= 2
    /\ detector.templates # <<>>
    /\ loadcall.disk.isdir
    /\ LoadFolders(EmptyLoad, loadcall.disk.entries, 1).templates # detector.templates

\* the entity folders of a listing in which no file is a PNG that decodes
FoldersWithoutImage(disk) ==
    {disk.entries[i].name : i \in {j \in DOMAIN disk.entries :
        /\ disk.entries[j].isdir
        /\ \A k \in DOMAIN disk.entries[j].files :
             \/ ~IsPng(disk.entries[j].files[k])
             \/ disk.entries[j].files[k].data \in DecodeFailures}}

\* C20: after any sequence of carregar_templates calls every entity name in
\* templates maps to at least one template, and after a call that scanned the
\* folder no entity folder without a decodable image is a key of templates.
C20_NoEmptyEntity ==
    /\ \A i \in DOMAIN detector.templates : Len(detector.templates[i].v) >= 1
    /\ loadcall.read =>
           DictKeys(detector.templates) \cap FoldersWithoutImage(loadcall.disk) = {}

\* a forced reload scanned a folder in which one entity has no decodable image
\* and another has one
C20_Witness ==
    /\ loadcall.n >= 2
    /\ loadcall.read
    /\ FoldersWithoutImage(loadcall.disk) # {}
    /\ detector.templates # <<>>

----------------------------------------------------------------------------
(* Properties of the detection engine, under SpecDetect *)

\* the names in the monstros_alvo list of the call
NamesAsked == {detcall.monstros_alvo.names[k] : k \in DOMAIN detcall.monstros_alvo.names}

\* the entities whose templates the call handed to cv2.matchTemplate
EntitiesMatched == {detcall.attempted[k][1] : k \in DOMAIN detcall.attempted}

\* C12: when detectar_monstros is given a monstros_alvo list, of any length,
\* zero included, it raises nothing, only entities named in the list are
\* matched and detected, and when no name of the list is a key of templates
\* the result is the empty list and no template is matched.
C12_OnlyNamedEntities ==
    (detcall.called /\ detcall.monstros_alvo.given) =>
        /\ ~detcall.exc
        /\ EntitiesMatched \subseteq NamesAsked
        /\ \A k \in DOMAIN detcall.ret : detcall.ret[k].nome \in NamesAsked
        /\ NamesAsked \cap DictKeys(detector.templates) = {} =>
               (detcall.ret = <<>> /\ detcall.attempted = <<>>)

\* the templates of the call on which cv2.matchTemplate returned a score surface
Matched == {detcall.attempted[k] : k \in DOMAIN detcall.attempted} \ detcall.failing

TemplateAt(p) == DictGet(detector.templates, p[1])[p[2]]
FilenameAt(p) == DictGet(detector.template_filenames, p[1])[p[2]]
ScoresAt(p) == matchTemplate(ToGray(detcall.frame), TemplateAt(p))

\* the <<template, row, column>> whose score reaches the threshold of the call
Hits ==
    UNION {UNION {{<<p, row, col>> : col \in {c \in DOMAIN ScoresAt(p)[row] :
                        AtLeast(ScoresAt(p)[row][c], detcall.threshold)}} :
                  row \in DOMAIN ScoresAt(p)} : p \in Matched}

\* the detection that belongs to a hit
DetectionOfHit(hit) ==
    [nome |-> hit[1][1],
     regiao |-> <<hit[3], hit[2], Cols(TemplateAt(hit[1])), Rows(TemplateAt(hit[1]))>>,
     confianca |-> ScoresAt(hit[1])[hit[2]][hit[3]],
     sprite_usado |-> FilenameAt(hit[1])]

\* C13: the list detectar_monstros returns holds exactly one detection for
\* every cell (row, col) of every matched template whose score is at least
\* the threshold, with regiao = (col, row, template width, template height),
\* confianca that cell's score and sprite_usado the template's file name, and
\* nothing else: neighbouring or overlapping hits are neither merged nor dropped.
C13_OneDetectionPerCell ==
    detcall.called =>
        /\ {detcall.ret[k] : k \in DOMAIN detcall.ret} = {DetectionOfHit(hit) : hit \in Hits}
        /\ Len(detcall.ret) = Cardinality(Hits)

\* a call in which one template hits two overlapping cells, one of them off
\* the diagonal, and a second template hits as well
C13_Witness ==
    /\ detcall.called
    /\ \E j, k \in DOMAIN detcall.ret :
         /\ detcall.ret[j].sprite_usado = detcall.ret[k].sprite_usado
         /\ detcall.ret[j].nome = detcall.ret[k].nome
         /\ detcall.ret[j].regiao[1] + 1 = detcall.ret[k].regiao[1]
         /\ detcall.ret[j].regiao[3] >= 2
         /\ detcall.ret[k].regiao[1] # detcall.ret[k].regiao[2]
    /\ \E j, k \in DOMAIN detcall.ret : detcall.ret[j].sprite_usado # detcall.ret[k].sprite_usado

\* C14: the list detectar_monstros returns is ordered by confianca, highest
\* first: no detection has a lower confianca than the one that follows it.
C14_SortedByConfianca ==
    detcall.called =>
        \A k \in 1..(Len(detcall.ret) - 1) :
            AtLeast(detcall.ret[k].confianca, detcall.ret[k + 1].confianca)

\* a detection of the entity matched second stands before a detection of the
\* entity matched first, with a strictly higher confianca
C14_Witness ==
    /\ detcall.called
    /\ \E j, k \in DOMAIN detcall.ret :
         /\ j < k
         /\ ~AtLeast(detcall.ret[k].confianca, detcall.ret[j].confianca)
         /\ detcall.ret[k].nome = detcall.attempted[1][1]
         /\ detcall.ret[j].nome # detcall.attempted[1][1]

\* what the same call returns when only its threshold is replaced
DetectionsAt(threshold) ==
    LET again == DetectarMonstros(detector, detcall.frame, threshold,
                                  detcall.monstros_alvo, detcall.failing).detections
    IN  {again[k] : k \in DOMAIN again}

\* C15: for the same frame, library and target names, every detection
\* returned at a threshold is also returned at any lower threshold.
C15_ThresholdMonotone ==
    detcall.called =>
        \A higher \in Thresholds :
            ~AtLeast(detcall.threshold, higher) =>
                DetectionsAt(higher) \subseteq {detcall.ret[k] : k \in DOMAIN detcall.ret}

\* a call for which a higher threshold keeps some detections and loses others
C15_Witness ==
    /\ detcall.called
    /\ \E higher \in Thresholds :
         /\ ~AtLeast(detcall.threshold, higher)
         /\ DetectionsAt(higher) # {}
         /\ DetectionsAt(higher) # {detcall.ret[k] : k \in DOMAIN detcall.ret}

\* the templates of the call on which cv2.matchTemplate raised
Failed == {detcall.attempted[k] : k \in DOMAIN detcall.attempted} \cap detcall.failing

\* a list without its elements at the positions in gone
Without(list, gone) ==
    LET F[i \in 0..Len(list)] ==
            IF i = 0 THEN <<>>
            ELSE IF i \in gone THEN F[i - 1] ELSE Append(F[i - 1], list[i])
    IN  F[Len(list)]

\* a dict of lists without the elements at the <<key, position>> in gone
WithoutAt(d, gone) ==
    [j \in DOMAIN d |->
        [k |-> d[j].k, v |-> Without(d[j].v, {p[2] : p \in {q \in gone : q[1] = d[j].k}})]]

\* the detector had the templates on which matching raised never been loaded
DetectorWithoutFailed ==
    [detector EXCEPT !.templates = WithoutAt(@, Failed),
                     !.template_filenames = WithoutAt(@, Failed)]

\* C16: when cv2.matchTemplate raises for a template, detectar_monstros still
\* returns, raises nothing, returns no detection of that template, and
\* returns exactly the list it returns, with no failure, for a library that
\* lacks the failing template.
C16_MatchFailureIsolated ==
    (detcall.called /\ Failed # {}) =>
        /\ ~detcall.exc
        /\ \A k \in DOMAIN detcall.ret :
               <<detcall.ret[k].nome, detcall.ret[k].sprite_usado>>
                   \notin {<<p[1], FilenameAt(p)>> : p \in Failed}
        /\ detcall.ret = DetectarMonstros(DetectorWithoutFailed, detcall.frame,
                                          detcall.threshold, detcall.monstros_alvo,
                                          {}).detections

\* matching raised for one template, and the call returned detections both of
\* another template of the same entity and of another entity
C16_Witness ==
    /\ detcall.called
    /\ \E p \in Failed :
         /\ \E k \in DOMAIN detcall.ret : detcall.ret[k].nome = p[1]
         /\ \E k \in DOMAIN detcall.ret : detcall.ret[k].nome # p[1]
         /\ \E k \in DOMAIN detcall.attempted :
              detcall.attempted[k][1] = p[1] /\ detcall.attempted[k][2] > p[2]

\* the entities the call searches
EntitiesSearched ==
    IF detcall.monstros_alvo.given /\ detcall.monstros_alvo.names # <<>>
    THEN NamesAsked \cap DictKeys(detector.templates)
    ELSE DictKeys(detector.templates)

\* every template, <<entity, position>>, of the entities the call searches
TemplatesSearched ==
    UNION {{<<nome, i>> : i \in DOMAIN DictGet(detector.templates, nome)} :
           nome \in EntitiesSearched}

ZeroSized(p) == Rows(TemplateAt(p)) = 0 \/ Cols(TemplateAt(p)) = 0
TallerThanFrame(p) == Rows(TemplateAt(p)) > Len(detcall.frame)
WiderThanFrame(p) == Cols(TemplateAt(p)) > Len(detcall.frame[1])

\* C17: in a detectar_monstros call no error is raised; a searched template
\* that is zero-sized, taller than the frame or wider than the frame is not
\* matched and has no detection in the result; every other searched
\* template, whichever templates were skipped before it, is matched.
C17_UnfitTemplatesSkipped ==
    detcall.called =>
        /\ ~detcall.exc
        /\ \A p \in TemplatesSearched :
               IF ZeroSized(p) \/ TallerThanFrame(p) \/ WiderThanFrame(p)
               THEN /\ p \notin {detcall.attempted[k] : k \in DOMAIN detcall.attempted}
                    /\ \A k \in DOMAIN detcall.ret :
                           <<detcall.ret[k].nome, detcall.ret[k].sprite_usado>>
                               # <<p[1], FilenameAt(p)>>
               ELSE p \in {detcall.attempted[k] : k \in DOMAIN detcall.attempted}

\* one call skipped a zero-sized template, one that is only too wide and one
\* that is only too tall, then matched a template of the same entity that is
\* as wide as the frame, and matched a template of the next entity
C17_Witness ==
    /\ detcall.called
    /\ \E e, w, t, f \in TemplatesSearched :
         /\ ZeroSized(e)
         /\ ~ZeroSized(w) /\ WiderThanFrame(w) /\ ~TallerThanFrame(w)
         /\ ~ZeroSized(t) /\ TallerThanFrame(t) /\ ~WiderThanFrame(t)
         /\ {e[1], w[1], t[1]} = {f[1]}
         /\ f[2] > e[2] /\ f[2] > w[2] /\ f[2] > t[2]
         /\ Cols(TemplateAt(f)) = Len(detcall.frame[1])
         /\ \E k \in DOMAIN detcall.ret :
              detcall.ret[k].nome = f[1] /\ detcall.ret[k].sprite_usado = FilenameAt(f)
    /\ \E k \in DOMAIN detcall.ret : detcall.ret[k].nome # detcall.attempted[1][1]

\* the cells <<row, col>> of the score surface of template p
CellsOf(p) == {<<row, col>> : row \in DOMAIN ScoresAt(p), col \in DOMAIN ScoresAt(p)[0]}

\* the frame holds an exact copy of template p with its top-left corner at row, col
CopyAt(p, cell) ==
    Window(ToGray(detcall.frame), cell[1], cell[2], Rows(TemplateAt(p)), Cols(TemplateAt(p)))
        = Window(TemplateAt(p), 0, 0, Rows(TemplateAt(p)), Cols(TemplateAt(p)))

\* template p is of a single colour
Solid(p) == \A r \in DOMAIN TemplateAt(p) : \A c \in DOMAIN TemplateAt(p)[r] :
                TemplateAt(p)[r][c] = TemplateAt(p)[1][1]

\* the detection of template p at a cell with confianca 1.0
ExactDetection(p, cell) ==
    [nome |-> p[1],
     regiao |-> <<cell[2], cell[1], Cols(TemplateAt(p)), Rows(TemplateAt(p))>>,
     confianca |-> Fraction(1, 1),
     sprite_usado |-> FilenameAt(p)]

Returned == {detcall.ret[k] : k \in DOMAIN detcall.ret}

\* the detections of template p in the list returned
ReturnedOf(p) ==
    {k \in DOMAIN detcall.ret :
        detcall.ret[k].nome = p[1] /\ detcall.ret[k].sprite_usado = FilenameAt(p)}

LoadFoundNoFolder ==
    /\ loadcall.n >= 1
    /\ ~CacheHit
    /\ ~loadcall.disk.isdir

\* C21: after a load that was attempted and found no folder, templates and
\* template_filenames are empty and the cache flag is false, also when the
\* library was loaded before, and a carregar_templates() without force that
\* follows reads the folder again, whatever the folder then is.
C21_MissingFolderNotLoaded ==
    LoadFoundNoFolder =>
        /\ loadcall.read
        /\ detector.templates = <<>>
        /\ detector.template_filenames = <<>>
        /\ ~detector.cache_loaded
        /\ \A disk \in Disks : CarregarTemplates(detector, disk, FALSE).read

\* a forced reload of a library that held templates found no folder
C21_Witness ==
    /\ LoadFoundNoFolder
    /\ loadcall.n >= 2
    /\ loadcall.forcar_recarregar
    /\ loadcall.before.cache_loaded
    /\ loadcall.before.templates # <<>>

\* the files of the entity folder nome in a listing
FilesOf(disk, nome) ==
    UNION {{disk.entries[j].files[k] : k \in DOMAIN disk.entries[j].files} :
           j \in {i \in DOMAIN disk.entries :
                      disk.entries[i].isdir /\ disk.entries[i].name = nome}}

\* C26: after any sequence of carregar_templates calls templates and
\* template_filenames have the same keys in the same order, the two lists of
\* an entity have the same length, and position i of the entity's file names
\* is the name of a file of the entity's folder, as the latest scan found it,
\* whose decoded pixels are the template at position i.
C26_FilenamesAligned ==
    /\ [j \in DOMAIN detector.templates |-> detector.templates[j].k]
           = [j \in DOMAIN detector.template_filenames |-> detector.template_filenames[j].k]
    /\ \A j \in DOMAIN detector.templates :
           /\ Len(detector.templates[j].v) = Len(detector.template_filenames[j].v)
           /\ \A i \in DOMAIN detector.templates[j].v :
                  \E f \in FilesOf(loadcall.scanned, detector.templates[j].k) :
                      /\ <<f.stem, f.ext>> = detector.template_filenames[j].v[i]
                      /\ f.data \notin DecodeFailures
                      /\ ToGray(f.data) = detector.templates[j].v[i]

\* a reload scanned a folder in which an entity has files that are skipped
\* before and between files that decode, one of them named in upper case
C26_Witness ==
    /\ loadcall.n >= 2
    /\ loadcall.read
    /\ \E j \in DOMAIN detector.templates :
         /\ Len(detector.templates[j].v) >= 2
         /\ Cardinality(FilesOf(loadcall.scanned, detector.templates[j].k))
                > Len(detector.templates[j].v)
         /\ \E i \in DOMAIN detector.template_filenames[j].v :
                detector.template_filenames[j].v[i][2] = "PNG"

\* C27: the cache flag is true exactly when the latest carregar_templates call
\* that was not a cache hit found pasta_sprites to be a directory, however
\* many templates it loaded; after such a load of an empty library a
\* carregar_templates() without force does not read the folder.
C27_CacheFlagFollowsFolder ==
    loadcall.n >= 1 =>
        /\ detector.cache_loaded = loadcall.scanned.isdir
        /\ (loadcall.scanned.isdir /\ detector.templates = <<>>) =>
               \A disk \in Disks : ~CarregarTemplates(detector, disk, FALSE).read

\* a forced reload of a library that held templates scanned a folder that
\* yields no template, and the library counts as loaded
C27_Witness ==
    /\ loadcall.n >= 2
    /\ loadcall.read
    /\ loadcall.disk.isdir
    /\ loadcall.before.templates # <<>>
    /\ detector.templates = <<>>
    /\ detector.cache_loaded

\* the positions in the entity's lists of the file name a detection carries
PositionsNamed(det) ==
    {i \in DOMAIN DictGet(detector.template_filenames, det.nome) :
        DictGet(detector.template_filenames, det.nome)[i] = det.sprite_usado}

\* C25: every detection detectar_monstros returns has its box inside the
\* frame, 0 <= x, 0 <= y, x + w <= frame width and y + h <= frame height,
\* and (w, h) is the width and height of the template its sprite_usado names.
C25_BoxInsideFrame ==
    detcall.called =>
        \A k \in DOMAIN detcall.ret :
            /\ detcall.ret[k].regiao[1] >= 0
            /\ detcall.ret[k].regiao[2] >= 0
            /\ detcall.ret[k].regiao[1] + detcall.ret[k].regiao[3] <= Len(detcall.frame[1])
            /\ detcall.ret[k].regiao[2] + detcall.ret[k].regiao[4] <= Len(detcall.frame)
            /\ PositionsNamed(detcall.ret[k]) # {}
            /\ \A i \in PositionsNamed(detcall.ret[k]) :
                   /\ Cols(DictGet(detector.templates, detcall.ret[k].nome)[i])
                          = detcall.ret[k].regiao[3]
                   /\ Rows(DictGet(detector.templates, detcall.ret[k].nome)[i])
                          = detcall.ret[k].regiao[4]

\* a detection of a template that is wider than tall touches the right and
\* the bottom edge of the frame, away from the left and the top edge
C25_Witness ==
    /\ detcall.called
    /\ \E k \in DOMAIN detcall.ret :
         /\ detcall.ret[k].regiao[1] > 0
         /\ detcall.ret[k].regiao[2] > 0
         /\ detcall.ret[k].regiao[3] > detcall.ret[k].regiao[4]
         /\ detcall.ret[k].regiao[1] + detcall.ret[k].regiao[3] = Len(detcall.frame[1])
         /\ detcall.ret[k].regiao[2] + detcall.ret[k].regiao[4] = Len(detcall.frame)

\* a name stands more than once in the list
HasDuplicates(names) == \E i, j \in DOMAIN names : i # j /\ names[i] = names[j]

\* the list with only the first occurrence of every name, in the same order
WithoutDuplicates(names) ==
    LET F[i \in 0..Len(names)] ==
            IF i = 0 THEN <<>>
            ELSE IF \E j \in 1..(i - 1) : names[j] = names[i]
                 THEN F[i - 1]
                 ELSE Append(F[i - 1], names[i])
    IN  F[Len(names)]

\* C28: a detectar_monstros call whose monstros_alvo repeats a name returns
\* the same list as the call with the repetitions removed, and matches no
\* template more than once.
C28_DuplicatesIgnored ==
    (detcall.called /\ detcall.monstros_alvo.given
                    /\ HasDuplicates(detcall.monstros_alvo.names)) =>
        /\ detcall.ret =
               DetectarMonstros(detector, detcall.frame, detcall.threshold,
                                TargetList(WithoutDuplicates(detcall.monstros_alvo.names)),
                                detcall.failing).detections
        /\ \A j, k \in DOMAIN detcall.attempted :
               detcall.attempted[j] = detcall.attempted[k] => j = k

\* a call whose list repeats the name of a loaded entity, the name standing
\* first and last, returned detections of that entity and of another one
C28_Witness ==
    /\ detcall.called
    /\ detcall.monstros_alvo.given
    /\ HasDuplicates(detcall.monstros_alvo.names)
    /\ \E i, j \in DOMAIN detcall.monstros_alvo.names :
         /\ i < j
         /\ detcall.monstros_alvo.names[i] = detcall.monstros_alvo.names[j]
         /\ \E k \in DOMAIN detcall.ret :
              detcall.ret[k].nome = detcall.monstros_alvo.names[i]
         /\ \E k \in DOMAIN detcall.ret :
              /\ detcall.ret[k].nome # detcall.monstros_alvo.names[i]
              /\ \E m \in (i + 1)..(j - 1) :
                     detcall.monstros_alvo.names[m] = detcall.ret[k].nome

----------------------------------------------------------------------------
(* Further properties of one backend object, under SpecBackend *)

\* the object's attribute (sct / camera) refers to a handle that is still open
HoldsOpenHandle(c) == c.handle # NoHandle /\ c.handle \in c.opened

\* C22: after any sequence of start() and stop() calls, each start()
\* succeeding or failing, a backend object is running if and only if it holds
\* an open handle.
C22_RunningIffHandle ==
    \A o \in DOMAIN objs : is_running(objs[o]) <=> HoldsOpenHandle(objs[o])

\* C24: a capture_frame call, whatever its outcome and with or without a
\* region override, leaves the backend object as it was: running flag,
\* handle and stored region; a capture_frame() without argument that follows
\* it on a running backend still grabs the area of the last valid set_region.
C24_CaptureLeavesBackend ==
    [][last'.op = "capture_frame" =>
          /\ objs' = objs
          /\ (is_running(objs'[last'.obj]) /\ asked'[last'.obj] # NoRegion) =>
                 CaptureFrameOf(objs'[last'.obj], NoRegion, "ok").area = asked'[last'.obj]]_vars

\* a capture with a valid override returned a frame on a backend whose region
\* had been set to something else
C24_Witness ==
    /\ last.op = "capture_frame"
    /\ last.arg # NoRegion
    /\ last.ret = "frame"
    /\ asked[last.obj] # NoRegion
    /\ last.area # asked[last.obj]
    /\ objs[last.obj].kind = "dxcam"

----------------------------------------------------------------------------
(* Further properties of the capture session, under Spec *)

\* C23: whatever configure_captura, stop_active_capturer and direct stop()
\* calls came before, a get_active_capturer() call that has just returned
\* gave back None or a capturer that is running.
C23_ActiveNeverStopped ==
    (Idle /\ last.op = "get_active_capturer" /\ last.obj # NoObj) =>
        is_running(objs[last.obj])
====
